---- MODULE Spec2Model ----
(***************************************************************************)
(* Model of graphix_qasm_parser/parser.py: the lowering pass that walks an *)
(* OpenQASM syntax tree and produces (width, instructions).                *)
(*                                                                         *)
(* The syntax tree is the input: statements and expressions are records    *)
(* drawn from bounded sets.  Python floats are modelled as exact rationals *)
(* <<n, d>> (d > 0, lowest terms); IEEE rounding is not modelled, and      *)
(* math.pi is the rational PiNum / PiDen.  The ctx field of _Value (source *)
(* position, used for messages only) is left out.  An exception is a       *)
(* value whose kind is the Python exception's name.                        *)
(***************************************************************************)
EXTENDS Integers, Sequences, FiniteSets, TLC

\* ------------------------------------------------------------------ bounds
MaxLit == 2        \* decimal integer literals are 0 .. MaxLit
MaxStmts == 3      \* statements visited in one pass
MaxIdx == 3        \* index literals of gate operands are 0 .. MaxIdx
MaxReg == 3        \* register sizes of the gate-call specification are 1 .. MaxReg

\* math.pi as a rational (parser.py:247)
PiNum == 22
PiDen == 7

\* ------------------------------------------------- Python numbers (rationals)
Abs(x) == IF x < 0 THEN -x ELSE x

RECURSIVE GCD(_, _)
GCD(a, b) == IF b = 0 THEN a ELSE GCD(b, a % b)

\* the rational n/d in lowest terms with a positive denominator (d # 0)
Reduce(n, d, g) == IF d < 0 THEN <<(-n) \div g, (-d) \div g>> ELSE <<n \div g, d \div g>>
Rat(n, d) == Reduce(n, d, GCD(Abs(n), Abs(d)))

RatAdd(x, y) == Rat(x[1] * y[2] + y[1] * x[2], x[2] * y[2])
RatSub(x, y) == Rat(x[1] * y[2] - y[1] * x[2], x[2] * y[2])
RatMul(x, y) == Rat(x[1] * y[1], x[2] * y[2])
RatDiv(x, y) == Rat(x[1] * y[2], x[2] * y[1])
RatNeg(x) == <<-x[1], x[2]>>
\* floor(x / y) for y # 0; \div rounds down for a positive divisor
Floor(q) == q[1] \div q[2]
RatFloorDiv(x, y) == Floor(RatDiv(x, y))
\* Python's %: x - y * floor(x / y), the sign of the divisor
RatMod(x, y) == RatSub(x, RatMul(y, <<RatFloorDiv(x, y), 1>>))

\* A Python number: type is "int" or "float", q its value.
PyInt(n) == [type |-> "int", q |-> <<n, 1>>]
PyFloat(q) == [type |-> "float", q |-> q]
PyJoin(x, y) == IF x.type = "int" /\ y.type = "int" THEN "int" ELSE "float"

\* ------------------------------------------------------------ the value model
Exceptions ==
    {"TypeError", "ZeroDivisionError", "NotImplementedError", "NameError",
     "AttributeError", "IndexError", "ValueError"}

NoNum == PyInt(0)
MkInt(v) == [kind |-> "_Int", value |-> v, index |-> 0, values |-> <<>>]
MkFloat(v) == [kind |-> "_Float", value |-> v, index |-> 0, values |-> <<>>]
MkBit(i) == [kind |-> "_Bit", value |-> NoNum, index |-> i, values |-> <<>>]
MkQubit(i) == [kind |-> "_Qubit", value |-> NoNum, index |-> i, values |-> <<>>]
MkArray(vs) == [kind |-> "_Array", value |-> NoNum, index |-> 0, values |-> vs]
Raise(e) == [kind |-> e, value |-> NoNum, index |-> 0, values |-> <<>>]
NotImplemented == [kind |-> "NotImplemented", value |-> NoNum, index |-> 0, values |-> <<>>]
None == [kind |-> "None", value |-> NoNum, index |-> 0, values |-> <<>>]

IsExc(v) == v.kind \in Exceptions

\* decl_class(ctx, index) for decl_class in {_Bit, _Qubit}
MkDecl(decl_class, i) == IF decl_class = "_Qubit" THEN MkQubit(i) ELSE MkBit(i)

\* Python's arithmetic on two numbers; a zero divisor raises.
PyArith(op, x, y) ==
    CASE op = "+" -> [type |-> PyJoin(x, y), q |-> RatAdd(x.q, y.q)]
      [] op = "-" -> [type |-> PyJoin(x, y), q |-> RatSub(x.q, y.q)]
      [] op = "*" -> [type |-> PyJoin(x, y), q |-> RatMul(x.q, y.q)]
      [] op = "/" -> [type |-> "float", q |-> RatDiv(x.q, y.q)]
      [] op = "%" -> [type |-> PyJoin(x, y), q |-> RatMod(x.q, y.q)]

PyRaisesZeroDivision(op, y) == op \in {"/", "%"} /\ y.q[1] = 0

\* _Int.__add__, __sub__, __mul__, __truediv__, __mod__
\* if isinstance(result, int): return _Int(..); return _Float(..)
IntOrFloat(result) == IF result.type = "int" THEN MkInt(result) ELSE MkFloat(result)

IntTrueDiv(self, other) ==
    IF other.kind = "_Int"
    THEN IF PyRaisesZeroDivision("/", other.value) THEN Raise("ZeroDivisionError")
         ELSE IntOrFloat(PyArith("/", self.value, other.value))
    ELSE NotImplemented

IntMethod(op, self, other) ==
    IF op = "/" THEN IntTrueDiv(self, other)
    ELSE IF other.kind = "_Int"
         THEN IF PyRaisesZeroDivision(op, other.value) THEN Raise("ZeroDivisionError")
              ELSE MkInt(PyArith(op, self.value, other.value))
         ELSE NotImplemented

\* _Float.__add__, __sub__, __mul__, __truediv__ take _Int or _Float; __mod__ only _Float
FloatMethod(op, self, other) ==
    IF other.kind \in (IF op = "%" THEN {"_Float"} ELSE {"_Int", "_Float"})
    THEN IF PyRaisesZeroDivision(op, other.value) THEN Raise("ZeroDivisionError")
         ELSE MkFloat(PyArith(op, self.value, other.value))
    ELSE NotImplemented

\* the reflected methods computing self <op> other
FloatReflectedSwapped(op, self, other) ==
    IF other.kind \in (IF op = "%" THEN {"_Float"} ELSE {"_Int"})
    THEN IF PyRaisesZeroDivision(op, other.value) THEN Raise("ZeroDivisionError")
         ELSE MkFloat(PyArith(op, self.value, other.value))
    ELSE NotImplemented

\* _Float.__radd__, __rsub__, __rmul__, __rtruediv__ take _Int; __rmod__ only _Float.
\* The value is other <op> self.
FloatReflected(op, self, other) ==
    IF other.kind \in (IF op = "%" THEN {"_Float"} ELSE {"_Int"})
    THEN IF PyRaisesZeroDivision(op, self.value) THEN Raise("ZeroDivisionError")
         ELSE MkFloat(PyArith(op, other.value, self.value))
    ELSE NotImplemented

\* the method of lhs's class; _Value's own methods return NotImplemented
Method(op, self, other) ==
    CASE self.kind = "_Int" -> IntMethod(op, self, other)
      [] self.kind = "_Float" -> FloatMethod(op, self, other)
      [] OTHER -> NotImplemented

\* the reflected method of rhs's class; only _Float overrides them
Reflected(op, self, other) ==
    IF self.kind = "_Float" THEN FloatReflected(op, self, other) ELSE NotImplemented

\* Python's lhs <op> rhs: lhs's method, then (for operands of different
\* classes) rhs's reflected method, then TypeError.
FirstImplemented(r1, r2) ==
    IF r1 # NotImplemented THEN r1
    ELSE IF r2 # NotImplemented THEN r2
    ELSE Raise("TypeError")

BinaryOp(op, lhs, rhs) ==
    FirstImplemented(Method(op, lhs, rhs),
                     IF lhs.kind # rhs.kind THEN Reflected(op, rhs, lhs) ELSE NotImplemented)

\* -operand followed by result.ctx = ctx: _Value.__neg__ returns NotImplemented,
\* which has no attribute ctx.
Negate(operand) ==
    CASE operand.kind = "_Int" -> MkInt([type |-> "int", q |-> RatNeg(operand.value.q)])
      [] operand.kind = "_Float" -> MkFloat([type |-> "float", q |-> RatNeg(operand.value.q)])
      [] OTHER -> Raise("AttributeError")

\* int(v): _Int.__int__, else _Value.__int__ raises TypeError
ToInt(v) == IF v.kind = "_Int" THEN v.value.q[1] ELSE 0
IntRaises(v) == v.kind # "_Int"
\* float(v): _Int.__float__, _Float.__float__, else _Value.__float__ raises TypeError
ToFloat(v) == v.value.q
FloatRaises(v) == v.kind \notin {"_Int", "_Float"}

\* -------------------------------------------------------- the syntax tree
\* An expression node: t is the node's shape, n/d a literal's value, s an
\* identifier or an operator token, ch the child expressions.
Node(t, n, d, s, ch) == [t |-> t, n |-> n, d |-> d, s |-> s, ch |-> ch]
IntLit(k) == Node("DecimalIntegerLiteral", k, 1, "", <<>>)
FloatLit(n, d) == Node("FloatLiteral", n, d, "", <<>>)
Ident(x) == Node("Identifier", 0, 1, x, <<>>)
Paren(e) == Node("Parenthesis", 0, 1, "", <<e>>)
Unary(o, e) == Node("Unary", 0, 1, o, <<e>>)
Binary(o, l, r) == Node("Binary", 0, 1, o, <<l, r>>)

\* A gate operand: an identifier and its index operators (one expression each).
Operand(x, idx) == [identifier |-> x, index |-> idx]

\* A statement: kind is the parser rule, body the statements nested in it.
Stmt(kind, tag, identifier, designator, init, gate, operands, exprs, body) ==
    [kind |-> kind, tag |-> tag, identifier |-> identifier, designator |-> designator,
     init |-> init, gate |-> gate, operands |-> operands, exprs |-> exprs, body |-> body]
OldStyle(tag, x, des) == Stmt("OldStyleDeclarationStatement", tag, x, des, <<>>, "", <<>>, <<>>, <<>>)
Quantum(x, des) == Stmt("QuantumDeclarationStatement", "QUBIT", x, des, <<>>, "", <<>>, <<>>, <<>>)
Const(x, e) == Stmt("ConstDeclarationStatement", "CONST", x, <<>>, <<e>>, "", <<>>, <<>>, <<>>)
GateCall(g, ops, es) == Stmt("GateCallStatement", "", "", <<>>, <<>>, g, ops, es, <<>>)
Other(kind, body) == Stmt(kind, "", "", <<>>, <<>>, "", <<>>, <<>>, body)

HandledKinds ==
    {"OldStyleDeclarationStatement", "QuantumDeclarationStatement",
     "ConstDeclarationStatement", "GateCallStatement"}

\* ------------------------------------------------------ _ExpressionVisitor
\* env.get(identifier)
EnvGet(env, x) == IF x \in DOMAIN env THEN env[x] ELSE None

\* _ExpressionVisitor.parse_binary_operator once lhs and rhs are parsed (an
\* exception of either has already propagated)
ApplyOperator(op, lhs, rhs) ==
    IF IsExc(lhs) THEN lhs
    ELSE IF IsExc(rhs) THEN rhs
    ELSE IF op \in {"*", "/", "%", "+", "-"} THEN BinaryOp(op, lhs, rhs)
    ELSE Raise("NotImplementedError")

\* _ExpressionVisitor.visitUnaryExpression once the operand is parsed
ApplyUnary(op, operand) ==
    IF IsExc(operand) THEN operand
    ELSE IF op = "-" THEN Negate(operand)
    ELSE Raise("NotImplementedError")

\* visitLiteralExpression's identifier case: if value := env.get(identifier)
Found(value) == IF value # None THEN value ELSE Raise("NotImplementedError")

\* _ExpressionVisitor.parse: the value of an expression, or the exception raised
RECURSIVE Eval(_, _)
Eval(env, e) ==
    CASE e.t = "DecimalIntegerLiteral" -> MkInt(PyInt(e.n))
      [] e.t = "FloatLiteral" -> MkFloat(PyFloat(Rat(e.n, e.d)))
      [] e.t = "Identifier" -> Found(EnvGet(env, e.s))
      [] e.t = "Parenthesis" -> Eval(env, e.ch[1])
      [] e.t = "Unary" -> ApplyUnary(e.s, Eval(env, e.ch[1]))
      [] e.t = "Binary" -> ApplyOperator(e.s, Eval(env, e.ch[1]), Eval(env, e.ch[2]))
      [] OTHER -> Raise("NotImplementedError")

\* ---------------------------------------------------------- _CircuitVisitor
\* The visitor's fields; exc is the exception that ended the walk ("" if none).
Visitor(w, ins, env, exc) == [width |-> w, instructions |-> ins, env |-> env, exc |-> exc]
Fail(v, e) == [v EXCEPT !.exc = e]

\* _CircuitVisitor.__init__
NewVisitor ==
    Visitor(0, <<>>,
            [x \in {"pi", "pi_greek"} |-> MkFloat(PyFloat(Rat(PiNum, PiDen)))], "")

\* the comprehension with range(1, count + 1) in place of range(count)
RegisterValuesFromOne(decl_class, width, count) ==
    [i \in 1..(IF count > 0 THEN count ELSE 0) |-> MkDecl(decl_class, width + i)]

\* [decl_class(ctx, self.width + i) for i in range(count)]
RegisterValues(decl_class, width, count) ==
    [i \in 1..(IF count > 0 THEN count ELSE 0) |-> MkDecl(decl_class, width + i - 1)]

\* self.width += count
AdvanceWidth(width, count) == width + count

\* self.env[identifier] = value
Bind(env, identifier, value) ==
    [x \in DOMAIN env \cup {identifier} |-> IF x = identifier THEN value ELSE env[x]]

\* declare_registers with a designator whose expression has the value e
DeclareArray(v, decl_class, identifier, e) ==
    IF IsExc(e) THEN Fail(v, e.kind)
    ELSE IF IntRaises(e) THEN Fail(v, "TypeError")
    ELSE Visitor(AdvanceWidth(v.width, ToInt(e)), v.instructions,
                 Bind(v.env, identifier,
                      MkArray(RegisterValues(decl_class, v.width, ToInt(e)))), "")

\* _CircuitVisitor.declare_registers; designator is <<>> or <<expression>>
DeclareRegisters(v, decl_class, identifier, designator) ==
    IF designator # <<>>
    THEN DeclareArray(v, decl_class, identifier, Eval(v.env, designator[1]))
    ELSE Visitor(AdvanceWidth(v.width, 1), v.instructions,
                 Bind(v.env, identifier, MkDecl(decl_class, v.width)), "")

\* _CircuitVisitor.visitOldStyleDeclarationStatement
VisitOldStyleDeclarationStatement(v, s) ==
    CASE s.tag = "QREG" -> DeclareRegisters(v, "_Qubit", s.identifier, s.designator)
      [] s.tag = "CREG" -> DeclareRegisters(v, "_Bit", s.identifier, s.designator)
      [] OTHER -> Fail(v, "NotImplementedError")

\* _CircuitVisitor.visitQuantumDeclarationStatement
VisitQuantumDeclarationStatement(v, s) ==
    DeclareRegisters(v, "_Qubit", s.identifier, s.designator)

\* _CircuitVisitor.visitConstDeclarationStatement
BindConst(v, identifier, expr) ==
    IF IsExc(expr) THEN Fail(v, expr.kind)
    ELSE [v EXCEPT !.env = Bind(v.env, identifier, expr)]

VisitConstDeclarationStatement(v, s) == BindConst(v, s.identifier, Eval(v.env, s.init[1]))

\* the upper check one too low: the last element is refused
IndexRaisesOffByOne(index, length) == index < 0 \/ index >= length - 1

\* evaluate_operand's two bounds checks on an index into a list of the given length
IndexRaises(index, length) == index < 0 \/ index >= length

\* The loop of evaluate_operand over the index operators ops, from value.
\* one round of the loop: e is the value of the index expression; the element
\* selected, or the exception
Select(value, e) ==
    IF value.kind # "_Array" THEN Raise("TypeError")
    ELSE IF IsExc(e) THEN e
    ELSE IF IntRaises(e) THEN Raise("TypeError")
    ELSE IF IndexRaises(ToInt(e), Len(value.values)) THEN Raise("IndexError")
    ELSE value.values[ToInt(e) + 1]

RECURSIVE IndexLoop(_, _, _)
IndexLoop(env, value, ops) ==
    IF ops = <<>> \/ IsExc(value) THEN value
    ELSE IndexLoop(env, Select(value, Eval(env, ops[1])), Tail(ops))

\* evaluate_operand from the value env.get(identifier)
Indexed(env, value, ops) ==
    IF value = None THEN Raise("NameError") ELSE IndexLoop(env, value, ops)

\* _CircuitVisitor.evaluate_operand
EvaluateOperand(env, operand) ==
    Indexed(env, EnvGet(env, operand.identifier), operand.index)

\* convert_qubit_index taking a classical bit for a qubit
QubitIndexOfAnyRef(value) ==
    IF IsExc(value) THEN value
    ELSE IF value.kind \in {"_Qubit", "_Bit"} THEN MkInt(PyInt(value.index))
    ELSE Raise("ValueError")

\* convert_qubit_index on the operand's value
QubitIndex(value) ==
    IF IsExc(value) THEN value
    ELSE IF value.kind = "_Qubit" THEN MkInt(PyInt(value.index))
    ELSE Raise("ValueError")

\* _CircuitVisitor.convert_qubit_index: the qubit's index as an _Int, or the exception
ConvertQubitIndex(env, operand) == QubitIndex(EvaluateOperand(env, operand))

\* float(value) as a _Float, or the exception
Angle(value) ==
    IF IsExc(value) THEN value
    ELSE IF FloatRaises(value) THEN Raise("TypeError")
    ELSE MkFloat(PyFloat(ToFloat(value)))

\* float(self.evaluate_expression(expr))
EvaluateAngle(env, expr) == Angle(Eval(env, expr))

\* the first exception of a list comprehension's results, "" if none
RECURSIVE FirstExc(_)
FirstExc(rs) ==
    IF rs = <<>> THEN ""
    ELSE IF IsExc(rs[1]) THEN rs[1].kind
    ELSE FirstExc(Tail(rs))

Instruction(name, controls, targets, angle) ==
    [name |-> name, controls |-> controls, targets |-> targets, angle |-> angle]

\* the subscripts operands[..] and exprs[..] each gate's branch reads (0-based, highest)
NeedOperands(gate) ==
    CASE gate = "ccx" -> 3
      [] gate \in {"crz", "cx", "swap"} -> 2
      [] OTHER -> 1
NeedExprs(gate) == IF gate \in {"crz", "rx", "ry", "rz"} THEN 1 ELSE 0

\* the ccx branch with the target taken from the first operand
CCXInstructionTargetFirst(ops) == Instruction("CCX", <<ops[2], ops[3]>>, <<ops[1]>>, <<>>)

\* CCX(target=operands[2], controls=(operands[0], operands[1]))
CCXInstruction(ops) == Instruction("CCX", <<ops[1], ops[2]>>, <<ops[3]>>, <<>>)

\* the if/elif chain of visitGateCallStatement; ops are qubit indices, es angles
Dispatch(gate, ops, es) ==
    CASE gate = "ccx" -> CCXInstruction(ops)
      [] gate = "crz" -> Instruction("RZZ", <<ops[1]>>, <<ops[2]>>, <<es[1]>>)
      [] gate = "cx" -> Instruction("CNOT", <<ops[1]>>, <<ops[2]>>, <<>>)
      [] gate = "swap" -> Instruction("SWAP", <<>>, <<ops[1], ops[2]>>, <<>>)
      [] gate = "h" -> Instruction("H", <<>>, <<ops[1]>>, <<>>)
      [] gate = "s" -> Instruction("S", <<>>, <<ops[1]>>, <<>>)
      [] gate = "x" -> Instruction("X", <<>>, <<ops[1]>>, <<>>)
      [] gate = "y" -> Instruction("Y", <<>>, <<ops[1]>>, <<>>)
      [] gate = "z" -> Instruction("Z", <<>>, <<ops[1]>>, <<>>)
      [] gate = "rx" -> Instruction("RX", <<>>, <<ops[1]>>, <<es[1]>>)
      [] gate = "ry" -> Instruction("RY", <<>>, <<ops[1]>>, <<es[1]>>)
      [] gate = "rz" -> Instruction("RZ", <<>>, <<ops[1]>>, <<es[1]>>)

KnownGates == {"ccx", "crz", "cx", "swap", "h", "s", "x", "y", "z", "rx", "ry", "rz"}

\* _CircuitVisitor.visitGateCallStatement
\* the plain ints and floats of the two lists
Ints(operands) == [i \in 1..Len(operands) |-> operands[i].value.q[1]]
Floats(exprs) == [i \in 1..Len(exprs) |-> exprs[i].value.q]

\* (variant) the instruction is put in front of the list
LowerPrepended(v, gate, operands, exprs) ==
    IF FirstExc(operands) # "" THEN Fail(v, FirstExc(operands))
    ELSE IF FirstExc(exprs) # "" THEN Fail(v, FirstExc(exprs))
    ELSE IF gate \notin KnownGates THEN Fail(v, "NotImplementedError")
    ELSE IF Len(operands) < NeedOperands(gate) \/ Len(exprs) < NeedExprs(gate)
         THEN Fail(v, "IndexError")
    ELSE [v EXCEPT !.instructions =
                <<Dispatch(gate, Ints(operands), Floats(exprs))>> \o v.instructions]

\* visitGateCallStatement once the two list comprehensions are evaluated
Lower(v, gate, operands, exprs) ==
    IF FirstExc(operands) # "" THEN Fail(v, FirstExc(operands))
    ELSE IF FirstExc(exprs) # "" THEN Fail(v, FirstExc(exprs))
    ELSE IF gate \notin KnownGates THEN Fail(v, "NotImplementedError")
    ELSE IF Len(operands) < NeedOperands(gate) \/ Len(exprs) < NeedExprs(gate)
         THEN Fail(v, "IndexError")
    ELSE [v EXCEPT !.instructions =
                Append(v.instructions, Dispatch(gate, Ints(operands), Floats(exprs)))]

VisitGateCallStatement(v, s) ==
    Lower(v, s.gate,
          [i \in 1..Len(s.operands) |-> ConvertQubitIndex(v.env, s.operands[i])],
          [i \in 1..Len(s.exprs) |-> EvaluateAngle(v.env, s.exprs[i])])

\* tree.accept(visitor): a rule the visitor overrides runs its method; any other
\* rule runs the inherited visitChildren, which visits the nested statements in
\* order.  An exception ends the walk.
RECURSIVE VisitChildren(_, _)
\* a rule with no method in _CircuitVisitor skipped with all that is nested in it
VisitOtherSkipped(v, s) == v

\* a rule with no method in _CircuitVisitor: its children are visited
VisitOther(v, s) == VisitChildren(v, s.body)

Visit(v, s) ==
    CASE v.exc # "" -> v
      [] s.kind = "OldStyleDeclarationStatement" -> VisitOldStyleDeclarationStatement(v, s)
      [] s.kind = "QuantumDeclarationStatement" -> VisitQuantumDeclarationStatement(v, s)
      [] s.kind = "ConstDeclarationStatement" -> VisitConstDeclarationStatement(v, s)
      [] s.kind = "GateCallStatement" -> VisitGateCallStatement(v, s)
      [] OTHER -> VisitOther(v, s)

VisitChildren(v, body) ==
    IF body = <<>> THEN v ELSE VisitChildren(Visit(v, body[1]), Tail(body))

\* ------------------------------------------------------------ the state
VARIABLES
    width,          \* _CircuitVisitor.width
    instructions,   \* _CircuitVisitor.instructions
    env,            \* _CircuitVisitor.env
    pc,             \* "visiting", "done" (parse_stream returned) or "failed" (it raised)
    exc,            \* the exception parse_stream raised, "" if none
    stmt,           \* the top-level statement visited last
    visited,        \* the number of top-level statements visited
    calls,          \* the number of top-level gate calls among them
    nestedCalls     \* the number of gate calls nested in the others of them

vars == <<width, instructions, env, pc, exc, stmt, visited, calls, nestedCalls>>

\* the gate calls the walk reaches in a body, at any depth: visitChildren goes
\* into every statement but those whose visit method the visitor overrides
RECURSIVE GateCallsIn(_)
GateCallsIn(body) ==
    IF body = <<>> THEN 0
    ELSE (IF body[1].kind = "GateCallStatement" THEN 1
          ELSE IF body[1].kind \in HandledKinds THEN 0
          ELSE GateCallsIn(body[1].body))
         + GateCallsIn(Tail(body))
\* the gate calls that are statements of the sequence p themselves
RECURSIVE TopLevelCalls(_)
TopLevelCalls(p) ==
    IF p = <<>> THEN 0
    ELSE (IF p[1].kind = "GateCallStatement" THEN 1 ELSE 0) + TopLevelCalls(Tail(p))
\* the top-level statements p have been visited
Counted(p) ==
    /\ calls = TopLevelCalls(p)
    /\ nestedCalls = GateCallsIn(p) - TopLevelCalls(p)

Cur == Visitor(width, instructions, env, exc)
NoStmt == Other("", <<>>)

\* the visitor is in the state v, s the statement it has just visited
Becomes(v, s, n) ==
    /\ width = v.width
    /\ instructions = v.instructions
    /\ env = v.env
    /\ exc = v.exc
    /\ pc = IF v.exc = "" THEN "visiting" ELSE "failed"
    /\ stmt = s
    /\ visited = n

\* visitor = _CircuitVisitor(self), before tree.accept(visitor)
Init == Becomes(NewVisitor, NoStmt, 0) /\ Counted(<<>>)

\* the visitor's fields become those of v
Update(v) ==
    /\ width' = v.width
    /\ instructions' = v.instructions
    /\ env' = v.env
    /\ exc' = v.exc
    /\ pc' = IF v.exc = "" THEN "visiting" ELSE "failed"

\* the walk goes on and the program, of at most max statements, has a next one
More(max) == pc = "visiting" /\ visited < max

\* the top-level statement s is visited
Step(s) ==
    /\ Update(Visit(Cur, s))
    /\ stmt' = s
    /\ visited' = visited + 1
    /\ calls' = calls + TopLevelCalls(<<s>>)
    /\ nestedCalls' = nestedCalls + GateCallsIn(<<s>>) - TopLevelCalls(<<s>>)

\* parse_stream: return Circuit(visitor.width, instr=visitor.instructions)
Return ==
    /\ pc = "visiting"
    /\ pc' = "done"
    /\ UNCHANGED <<width, instructions, env, exc, stmt, visited, calls, nestedCalls>>

\* ------------------------------------------------- the programs of Spec
RegNames == {"q", "c"}
Minus1 == Unary("-", IntLit(1))
DesExprs ==
    {IntLit(k) : k \in 0..MaxLit}
    \cup {Minus1, Paren(IntLit(2)), Binary("/", IntLit(2), IntLit(1)), Ident("a")}
Designators == {<<>>} \cup {<<e>> : e \in DesExprs}
OldStyleDecls ==
    {OldStyle(tag, x, d) : tag \in {"QREG", "CREG"}, x \in RegNames, d \in Designators}
QuantumDecls == {Quantum(x, d) : x \in RegNames, d \in Designators}
ConstInits ==
    {IntLit(1), Minus1, FloatLit(3, 2), Ident("q"), Ident("u"), Unary("~", IntLit(1)),
     Binary("*", IntLit(2), Ident("pi"))}
ConstDecls == {Const("a", e) : e \in ConstInits}
Q(i) == Operand("q", <<IntLit(i)>>)
PassOperands == {Operand("q", <<>>), Q(0), Q(1), Operand("c", <<IntLit(0)>>)}
PassGateCalls ==
    {GateCall(g, <<o>>, <<>>) : g \in {"h", "foo"}, o \in PassOperands}
    \cup {GateCall("cx", <<o1, o2>>, <<>>) : o1, o2 \in {Q(0), Q(1)}}
    \cup {GateCall("rx", <<o>>, <<e>>) : o \in {Q(0), Q(1)}, e \in {Ident("a"), Ident("pi")}}
Nested ==
    {GateCall("h", <<Q(0)>>, <<>>), GateCall("h", <<Operand("u", <<>>)>>, <<>>),
     OldStyle("QREG", "q", <<IntLit(1)>>), Const("a", IntLit(1)),
     Other("IncludeStatement", <<>>)}
OtherStmts ==
    {Other(k, <<>>) : k \in {"IncludeStatement", "ClassicalDeclarationStatement"}}
    \cup {Other(k, <<s>>) : k \in {"IfStatement", "GateStatement"}, s \in Nested}
    \cup {Other("ForStatement", <<Other("Scope", <<s1, s2>>)>>) :
            s1 \in {OldStyle("QREG", "q", <<IntLit(1)>>)}, s2 \in Nested}

OldStyleDeclaration ==
    /\ More(MaxStmts)
    /\ \E s \in OldStyleDecls : Step(s)
QuantumDeclaration ==
    /\ More(MaxStmts)
    /\ \E s \in QuantumDecls : Step(s)
ConstDeclaration ==
    /\ More(MaxStmts)
    /\ \E s \in ConstDecls : Step(s)
GateCallStatement ==
    /\ More(MaxStmts)
    /\ \E s \in PassGateCalls : Step(s)
OtherStatement ==
    /\ More(MaxStmts)
    /\ \E s \in OtherStmts : Step(s)

Next ==
    \/ OldStyleDeclaration
    \/ QuantumDeclaration
    \/ ConstDeclaration
    \/ GateCallStatement
    \/ OtherStatement
    \/ Return

Spec == Init /\ [][Next]_vars

\* -------------------------------------------- the programs of SpecGate
\* Declarations of q, c and a in either order of q and c, then one gate call.
Sized(n) == IF n = 0 THEN <<>> ELSE <<IntLit(n)>>
GatePrefixes ==
    LET qs == {OldStyle("QREG", "q", Sized(n)) : n \in 0..MaxReg}
        cs == {OldStyle("CREG", "c", Sized(n)) : n \in 0..MaxLit}
        as == {Const("a", e) : e \in {IntLit(1), FloatLit(3, 2)}}
    IN  {<<dq, dc, da>> : dq \in qs, dc \in cs, da \in as}
        \cup {<<dc, dq, da>> : dq \in qs, dc \in cs, da \in as}
PrefixLen == Len(CHOOSE p \in GatePrefixes : TRUE)

IndexExprs ==
    {IntLit(i) : i \in 0..MaxIdx} \cup {Minus1, Unary("-", IntLit(2)), Ident("a")}
GateOperands ==
    {Operand(x, <<>>) : x \in {"q", "c", "a", "u"}}
    \cup {Operand("q", <<e>>) : e \in IndexExprs}
    \cup {Operand("c", <<IntLit(0)>>), Operand("a", <<IntLit(0)>>),
          Operand("q", <<IntLit(0), IntLit(0)>>)}
CoreOperands == {Q(0), Q(1), Q(2), Operand("c", <<IntLit(0)>>)}
OperandLists ==
    {<<o>> : o \in GateOperands}
    \cup {<<o1, o2>> : o1, o2 \in CoreOperands}
    \cup {<<o1, o2, o3>> : o1, o2, o3 \in CoreOperands}
AngleLists ==
    {<<>>, <<Binary("/", Ident("pi"), IntLit(4))>>, <<Paren(Ident("a"))>>, <<Ident("q")>>}
GateNames == KnownGates \cup {"foo"}
GateCalls == {GateCall(g, ops, es) : g \in GateNames, ops \in OperandLists, es \in AngleLists}

\* the visitor after the statements of p
After(p) == VisitChildren(NewVisitor, p)

InitGate == \E p \in GatePrefixes : Becomes(After(p), p[Len(p)], Len(p)) /\ Counted(p)
GateCallAfterPrefix ==
    /\ More(PrefixLen + 1)
    /\ \E s \in GateCalls : Step(s)
NextGate == GateCallAfterPrefix \/ Return
SpecGate == InitGate /\ [][NextGate]_vars

\* ------------------------------------------- the programs of SpecArith
\* Declarations of q, c and a, then const a = lhs op rhs over atoms of every kind.
ArithPrefixes ==
    {<<OldStyle("QREG", "q", dq), OldStyle("CREG", "c", <<>>), Const("a", e)>> :
        dq \in {<<>>, <<IntLit(2)>>}, e \in {IntLit(2), FloatLit(3, 2)}}
Operators == {"+", "-", "*", "/", "%"}
Atoms ==
    {IntLit(k) : k \in 0..MaxLit}
    \cup {Minus1, Unary("-", IntLit(2)), FloatLit(0, 1), FloatLit(1, 2), FloatLit(3, 2),
          Unary("-", FloatLit(3, 2)), Ident("q"), Ident("c"), Ident("a"), Ident("pi")}
ArithDecls == {Const("r", Binary(o, l, r)) : o \in Operators, l, r \in Atoms}

InitArith == \E p \in ArithPrefixes : Becomes(After(p), p[Len(p)], Len(p)) /\ Counted(p)
ConstBinaryAfterPrefix ==
    /\ More(PrefixLen + 1)
    /\ \E s \in ArithDecls : Step(s)
NextArith == ConstBinaryAfterPrefix \/ Return
SpecArith == InitArith /\ [][NextArith]_vars

\* ------------------------------------------------------------ the claims
\* the step visits one top-level statement (the one in stmt')
VisitStep == visited' = visited + 1
DeclKinds == {"OldStyleDeclarationStatement", "QuantumDeclarationStatement"}
DeclStep == VisitStep /\ stmt'.kind \in DeclKinds
DeclClass(s) == IF s.tag = "CREG" THEN "_Bit" ELSE "_Qubit"
\* the designator of declaration s evaluates, in environment e, to the _Int n
DesignatorIs(e, s, n) == s.designator # <<>> /\ Eval(e, s.designator[1]) = MkInt(PyInt(n))
Sizes == -2..(MaxLit + 2)
Unchanged == width' = width /\ env' = env /\ instructions' = instructions

\* every qubit index an instruction names
QubitsOf(ins) == {ins.controls[i] : i \in 1..Len(ins.controls)}
                 \cup {ins.targets[i] : i \in 1..Len(ins.targets)}

\* C1: when a pass completes without error, every target and control index of
\* every emitted instruction is in [0, width), width being the returned width.
C1_OperandIndicesWithinWidth ==
    pc = "done" =>
        \A i \in 1..Len(instructions) : \A k \in QubitsOf(instructions[i]) :
            0 <= k /\ k < width

\* C3: a register declaration (qreg, creg or qubit) with no designator binds the
\* name to the scalar reference w and sets width to w + 1; with a designator
\* that evaluates to the integer N > 0 it binds the name to the Array of the N
\* references w, w+1, .., w+N-1 in increasing order and sets width to w + N
\* (w the width before the declaration); it raises nothing.
C3_DeclarationAllocatesConsecutive ==
    [][DeclStep =>
        /\ stmt'.designator = <<>> =>
              /\ pc' = "visiting"
              /\ width' = width + 1
              /\ env'[stmt'.identifier] = MkDecl(DeclClass(stmt'), width)
        /\ \A n \in Sizes : (n > 0 /\ DesignatorIs(env, stmt', n)) =>
              /\ pc' = "visiting"
              /\ width' = width + n
              /\ env'[stmt'.identifier].kind = "_Array"
              /\ Len(env'[stmt'.identifier].values) = n
              /\ \A i \in 0..(n - 1) :
                    env'[stmt'.identifier].values[i + 1] = MkDecl(DeclClass(stmt'), width + i)
        /\ pc' = "visiting" =>
              /\ instructions' = instructions
              /\ \A x \in DOMAIN env : x # stmt'.identifier => (x \in DOMAIN env' /\ env'[x] = env[x])
     ]_vars

\* C3 witness: a classical register of two bits was declared when width was
\* already positive, and is bound to the two references width-2, width-1.
C3_Witness ==
    /\ pc = "visiting"
    /\ stmt.kind = "OldStyleDeclarationStatement" /\ stmt.tag = "CREG"
    /\ stmt.designator = <<IntLit(2)>>
    /\ width > 2
    /\ stmt.identifier \in DOMAIN env
    /\ env[stmt.identifier] = MkArray(<<MkBit(width - 2), MkBit(width - 1)>>)

\* C4: a register declaration whose designator evaluates to an integer N <= 0
\* is rejected with an error, leaving width and the environment unchanged.
C4_NonPositiveSizeRejected ==
    [][DeclStep =>
        \A n \in Sizes : (n <= 0 /\ DesignatorIs(env, stmt', n)) =>
            pc' = "failed" /\ width' = width /\ env' = env
     ]_vars

\* C5: width starts at 0 and no statement of a pass decreases it.
C5_WidthNeverDecreases == [][width' >= width]_vars

\* the step visits a top-level gate call
GateStep == VisitStep /\ stmt'.kind = "GateCallStatement"
\* the qubit operands of an instruction in the order of the gate call
OperandsOf(ins) == ins.controls \o ins.targets
\* the step appended an instruction whose k-th operand is the index n (operands
\* beyond those the gate takes are evaluated and not used)
Uses(k, n) ==
    /\ instructions' # <<>>
    /\ k <= Len(OperandsOf(instructions'[Len(instructions')])) =>
          OperandsOf(instructions'[Len(instructions')])[k] = n
\* the operands of gate call s before the k-th all resolve to qubits in environment e
EarlierResolve(e, s, k) == \A j \in 1..(k - 1) : ~IsExc(ConvertQubitIndex(e, s.operands[j]))
AllResolve(e, s) ==
    /\ EarlierResolve(e, s, Len(s.operands) + 1)
    /\ \A j \in 1..Len(s.exprs) : ~IsExc(EvaluateAngle(e, s.exprs[j]))
\* the k-th operand's qubit index and the j-th angle
Op(e, s, k) == ConvertQubitIndex(e, s.operands[k]).value.q[1]
Ang(e, s, j) == EvaluateAngle(e, s.exprs[j]).value.q
\* the table of section 4.4: operand arity, angle arity, instruction
TableArity(g) ==
    CASE g = "ccx" -> <<3, 0>>
      [] g = "crz" -> <<2, 1>>
      [] g \in {"cx", "swap"} -> <<2, 0>>
      [] g \in {"h", "s", "x", "y", "z"} -> <<1, 0>>
      [] g \in {"rx", "ry", "rz"} -> <<1, 1>>
      [] OTHER -> <<0, 0>>
TableInstruction(e, s) ==
    CASE s.gate = "ccx" ->
            [name |-> "CCX", controls |-> <<Op(e, s, 1), Op(e, s, 2)>>,
             targets |-> <<Op(e, s, 3)>>, angle |-> <<>>]
      [] s.gate = "crz" ->
            [name |-> "RZZ", controls |-> <<Op(e, s, 1)>>, targets |-> <<Op(e, s, 2)>>,
             angle |-> <<Ang(e, s, 1)>>]
      [] s.gate = "cx" ->
            [name |-> "CNOT", controls |-> <<Op(e, s, 1)>>, targets |-> <<Op(e, s, 2)>>,
             angle |-> <<>>]
      [] s.gate = "swap" ->
            [name |-> "SWAP", controls |-> <<>>, targets |-> <<Op(e, s, 1), Op(e, s, 2)>>,
             angle |-> <<>>]
      [] s.gate = "h" -> [name |-> "H", controls |-> <<>>, targets |-> <<Op(e, s, 1)>>, angle |-> <<>>]
      [] s.gate = "s" -> [name |-> "S", controls |-> <<>>, targets |-> <<Op(e, s, 1)>>, angle |-> <<>>]
      [] s.gate = "x" -> [name |-> "X", controls |-> <<>>, targets |-> <<Op(e, s, 1)>>, angle |-> <<>>]
      [] s.gate = "y" -> [name |-> "Y", controls |-> <<>>, targets |-> <<Op(e, s, 1)>>, angle |-> <<>>]
      [] s.gate = "z" -> [name |-> "Z", controls |-> <<>>, targets |-> <<Op(e, s, 1)>>, angle |-> <<>>]
      [] s.gate = "rx" ->
            [name |-> "RX", controls |-> <<>>, targets |-> <<Op(e, s, 1)>>, angle |-> <<Ang(e, s, 1)>>]
      [] s.gate = "ry" ->
            [name |-> "RY", controls |-> <<>>, targets |-> <<Op(e, s, 1)>>, angle |-> <<Ang(e, s, 1)>>]
      [] s.gate = "rz" ->
            [name |-> "RZ", controls |-> <<>>, targets |-> <<Op(e, s, 1)>>, angle |-> <<Ang(e, s, 1)>>]
TableGates == {"ccx", "crz", "cx", "swap", "h", "s", "x", "y", "z", "rx", "ry", "rz"}

\* C2: a gate call whose operands and angles resolve and have the table's
\* arity appends exactly the table's instruction for each of the 12 names; a
\* call with any other name fails and appends nothing, with the unknown-gate
\* error (NotImplementedError) when its operands and angles resolve.
C2_GateTable ==
    [][GateStep =>
        /\ (/\ stmt'.gate \in TableGates
            /\ AllResolve(env, stmt')
            /\ <<Len(stmt'.operands), Len(stmt'.exprs)>> = TableArity(stmt'.gate)) =>
              /\ pc' = "visiting"
              /\ instructions' = Append(instructions, TableInstruction(env, stmt'))
        /\ stmt'.gate \notin TableGates =>
              /\ pc' = "failed"
              /\ instructions' = instructions
              /\ AllResolve(env, stmt') => exc' = "NotImplementedError"
     ]_vars

\* C2 witness: crz on two different qubits with an angle was lowered.
C2_Witness ==
    /\ pc = "visiting"
    /\ stmt.kind = "GateCallStatement" /\ stmt.gate = "crz"
    /\ Len(instructions) = 1
    /\ instructions[1].name = "RZZ"
    /\ instructions[1].controls # instructions[1].targets
    /\ instructions[1].angle = <<Rat(PiNum, 4 * PiDen)>>

\* the k-th operand of s is name[expr], name is an Array and expr the integer i
IndexedAt(e, s, k, i) ==
    /\ Len(s.operands[k].index) = 1
    /\ s.operands[k].identifier \in DOMAIN e
    /\ e[s.operands[k].identifier].kind = "_Array"
    /\ Eval(e, s.operands[k].index[1]) = MkInt(PyInt(i))
ArrayAt(e, s, k) == e[s.operands[k].identifier].values
Indices == -2..(MaxIdx + 1)

\* C7: name[i] against an N-element array succeeds for 0 <= i <= N-1 and
\* yields the element base+i (a gate call that completes uses that index; h on
\* a qubit element completes); for i >= N and for negative i the gate call
\* fails with IndexError and appends no instruction.
C7_IndexBounds ==
    [][GateStep =>
        \A k \in 1..Len(stmt'.operands) : \A i \in Indices :
            (EarlierResolve(env, stmt', k) /\ IndexedAt(env, stmt', k, i)) =>
                /\ (i < 0 \/ i >= Len(ArrayAt(env, stmt', k))) =>
                      pc' = "failed" /\ exc' = "IndexError" /\ instructions' = instructions
                /\ (0 <= i /\ i <= Len(ArrayAt(env, stmt', k)) - 1) =>
                      /\ ArrayAt(env, stmt', k)[i + 1].index = ArrayAt(env, stmt', k)[1].index + i
                      /\ pc' = "visiting" => Uses(k, ArrayAt(env, stmt', k)[1].index + i)
                      /\ (/\ stmt'.gate = "h" /\ Len(stmt'.operands) = 1
                          /\ ArrayAt(env, stmt', k)[i + 1].kind = "_Qubit"
                          /\ stmt'.exprs = <<>>) => pc' = "visiting"
     ]_vars

\* C7 witness: h q[2] was lowered for a three-qubit register q allocated after
\* a classical register, so the target is base + 2 with base > 0.
C7_Witness ==
    /\ pc = "visiting"
    /\ stmt.kind = "GateCallStatement" /\ stmt.gate = "h" /\ stmt.operands = <<Q(2)>>
    /\ Len(env["q"].values) = 3
    /\ env["q"].values[1].index > 0
    /\ instructions = <<[name |-> "H", controls |-> <<>>,
                         targets |-> <<env["q"].values[1].index + 2>>, angle |-> <<>>]>>

\* what the k-th operand of s selects in environment e: the value bound to a
\* bare identifier, or the element i of the Array bound to name in name[i]
Bare(s, k) == s.operands[k].index = <<>> /\ s.operands[k].identifier \in DOMAIN env
Numeric == {"_Int", "_Float"}

\* C8: a gate operand must resolve to a qubit: a bare identifier bound to a
\* scalar qubit, or an element of a qubit array, gives that qubit's index; one
\* bound to a classical bit (scalar or element of a creg array), to an Array or
\* to a number fails with ValueError, an unbound one with NameError; a failing
\* gate call appends no instruction.
C8_OperandMustBeQubit ==
    [][GateStep =>
        /\ pc' = "failed" => instructions' = instructions
        /\ \A k \in 1..Len(stmt'.operands) : EarlierResolve(env, stmt', k) =>
            /\ stmt'.operands[k].identifier \notin DOMAIN env =>
                  pc' = "failed" /\ exc' = "NameError"
            /\ (Bare(stmt', k) /\ env[stmt'.operands[k].identifier].kind
                                      \in {"_Bit", "_Array"} \cup Numeric) =>
                  pc' = "failed" /\ exc' = "ValueError"
            /\ (Bare(stmt', k) /\ env[stmt'.operands[k].identifier].kind = "_Qubit") =>
                  /\ pc' = "visiting" => Uses(k, env[stmt'.operands[k].identifier].index)
                  /\ (stmt'.gate = "h" /\ Len(stmt'.operands) = 1 /\ stmt'.exprs = <<>>) =>
                        pc' = "visiting"
            /\ \A i \in Indices :
                 (/\ IndexedAt(env, stmt', k, i)
                  /\ 0 <= i /\ i < Len(ArrayAt(env, stmt', k))) =>
                    /\ ArrayAt(env, stmt', k)[i + 1].kind = "_Bit" =>
                          pc' = "failed" /\ exc' = "ValueError"
                    /\ (ArrayAt(env, stmt', k)[i + 1].kind = "_Qubit" /\ pc' = "visiting") =>
                          Uses(k, ArrayAt(env, stmt', k)[i + 1].index)
     ]_vars

\* C8 witness: cx q[0], c[0] was refused with ValueError, c a creg array.
C8_Witness ==
    /\ pc = "failed" /\ exc = "ValueError"
    /\ stmt.kind = "GateCallStatement" /\ stmt.gate = "cx"
    /\ stmt.operands = <<Q(0), Operand("c", <<IntLit(0)>>)>>
    /\ env["c"].kind = "_Array" /\ env["c"].values[1].kind = "_Bit"
    /\ instructions = <<>>

\* the statement visited last is const r = lhs op rhs of SpecArith
ArithDone == visited = PrefixLen + 1 /\ stmt.kind = "ConstDeclarationStatement"
ArithOp == stmt.init[1].s
\* the values of the two operands (neither names r, so env as it is now gives
\* the values they had)
Lhs == Eval(env, stmt.init[1].ch[1])
Rhs == Eval(env, stmt.init[1].ch[2])
LhsQ == Lhs.value.q
RhsQ == Rhs.value.q
RatLess(x, y) == x[1] * y[2] < y[1] * x[2]
Zero == <<0, 1>>
ModQuotients == -8..8
\* r is x % y as Python defines it: x - k*y for an integer k, zero or of the
\* divisor's sign, and smaller than the divisor in magnitude
IsPyMod(x, y, r) ==
    /\ \E k \in ModQuotients : r = RatSub(x, RatMul(y, <<k, 1>>))
    /\ RatLess(Zero, y) => (~RatLess(r, Zero) /\ RatLess(r, y))
    /\ RatLess(y, Zero) => (~RatLess(Zero, r) /\ RatLess(y, r))

\* C6: an Int divided by a non-zero Int is an Int, the exact quotient, when the
\* divisor divides the dividend, and a Float otherwise.
C6_ExactIntDivisionYieldsInt ==
    (/\ ArithDone /\ ArithOp = "/"
     /\ Lhs.kind = "_Int" /\ Rhs.kind = "_Int" /\ RhsQ # Zero) =>
        /\ exc = ""
        /\ IF RatDiv(LhsQ, RhsQ)[2] = 1
           THEN env["r"] = MkInt(PyInt(RatDiv(LhsQ, RhsQ)[1]))
           ELSE env["r"] = MkFloat(PyFloat(RatDiv(LhsQ, RhsQ)))

\* C9: the promotion table.  + - *: Int with Int is Int, any pair with a Float
\* is Float, the value being lhs op rhs in source order; / with a Float operand
\* (non-zero divisor) is Float; Int%Int is Int and Float%Float is Float
\* (non-zero divisor), Int%Float and Float%Int raise TypeError; an operator
\* with a qubit, bit or Array on either side raises TypeError.
C9_PromotionTable ==
    ArithDone =>
        /\ (Lhs.kind \in Numeric /\ Rhs.kind \in Numeric /\ ArithOp \in {"+", "-", "*"}) =>
              /\ exc = ""
              /\ env["r"].kind = IF Lhs.kind = "_Int" /\ Rhs.kind = "_Int"
                                 THEN "_Int" ELSE "_Float"
              /\ env["r"].value.type = IF env["r"].kind = "_Int" THEN "int" ELSE "float"
              /\ env["r"].value.q =
                    CASE ArithOp = "+" -> RatAdd(LhsQ, RhsQ)
                      [] ArithOp = "-" -> RatSub(LhsQ, RhsQ)
                      [] ArithOp = "*" -> RatMul(LhsQ, RhsQ)
        /\ (/\ Lhs.kind \in Numeric /\ Rhs.kind \in Numeric /\ ArithOp = "/"
            /\ "_Float" \in {Lhs.kind, Rhs.kind} /\ RhsQ # Zero) =>
              /\ exc = ""
              /\ env["r"] = MkFloat(PyFloat(RatDiv(LhsQ, RhsQ)))
        /\ (/\ Lhs.kind \in Numeric /\ Rhs.kind = Lhs.kind /\ ArithOp = "%"
            /\ RhsQ # Zero) =>
              /\ exc = ""
              /\ env["r"].kind = Lhs.kind
              /\ IsPyMod(LhsQ, RhsQ, env["r"].value.q)
        /\ (/\ Lhs.kind \in Numeric /\ Rhs.kind \in Numeric /\ Rhs.kind # Lhs.kind
            /\ ArithOp = "%") =>
              pc = "failed" /\ exc = "TypeError"
        /\ (Lhs.kind \in {"_Qubit", "_Bit", "_Array"}
               \/ Rhs.kind \in {"_Qubit", "_Bit", "_Array"}) =>
              pc = "failed" /\ exc = "TypeError"

\* C9 witness: Int - Float gave the Float lhs - rhs, a negative value.
C9_Witness ==
    /\ ArithDone /\ pc = "visiting"
    /\ ArithOp = "-" /\ Lhs = MkInt(PyInt(1)) /\ Rhs = MkFloat(PyFloat(<<3, 2>>))
    /\ env["r"] = MkFloat(PyFloat(<<-1, 2>>))

\* the step visits a top-level statement of a kind the visitor has no method for
OtherStep == VisitStep /\ stmt'.kind \notin HandledKinds
\* the declarations and gate calls nested in a body, in source order
RECURSIVE HandledIn(_)
HandledIn(body) ==
    IF body = <<>> THEN <<>>
    ELSE (IF body[1].kind \in HandledKinds THEN <<body[1]>> ELSE HandledIn(body[1].body))
         \o HandledIn(Tail(body))
\* the visitor after the handled statements ss, visited one after the other as
\* top-level statements are
RECURSIVE Handle(_, _)
Handle(v, ss) == IF ss = <<>> THEN v ELSE Handle(Visit(v, ss[1]), Tail(ss))
Is(v) ==
    /\ width' = v.width /\ instructions' = v.instructions /\ env' = v.env
    /\ exc' = v.exc /\ pc' = IF v.exc = "" THEN "visiting" ELSE "failed"

\* C10 as stated: a top-level statement of any other kind, whatever is nested
\* in it, raises nothing, appends nothing and leaves width and env unchanged.
C10_OtherStatementSkipped == [][OtherStep => (pc' = "visiting" /\ Unchanged)]_vars

\* C10 amended: a top-level statement of another kind is skipped (no error, no
\* instruction, width and env unchanged) when no declaration or gate call is
\* nested in it; those nested in it are visited, in source order, exactly as
\* top-level statements are.
C10_OtherStatementDescended ==
    [][OtherStep =>
        /\ HandledIn(stmt'.body) = <<>> => (pc' = "visiting" /\ Unchanged)
        /\ Is(Handle(Cur, HandledIn(stmt'.body)))
     ]_vars

\* C10 witness: an if statement was visited after a declaration of q and the
\* gate call nested in it appended an instruction.
C10_Witness ==
    /\ pc = "visiting" /\ visited >= 2
    /\ stmt.kind = "IfStatement"
    /\ stmt.body = <<GateCall("h", <<Q(0)>>, <<>>)>>
    /\ Len(instructions) >= 1
    /\ instructions[Len(instructions)].name = "H"

\* the instructions before the step are still there, in the same order
PrefixKept ==
    /\ Len(instructions') >= Len(instructions)
    /\ SubSeq(instructions', 1, Len(instructions)) = instructions
\* each gate call that succeeds appends exactly one instruction, its lowering,
\* at the end; declarations append none; no statement removes or reorders
AppendOnly ==
    VisitStep =>
        /\ PrefixKept
        /\ (stmt'.kind = "GateCallStatement" /\ pc' = "visiting") =>
              instructions' = Append(instructions, TableInstruction(env, stmt'))
        /\ (stmt'.kind \in HandledKinds \ {"GateCallStatement"}) =>
              instructions' = instructions

\* C11 as stated: the instruction list is append-only (a successful gate call
\* appends exactly one instruction at the end, its lowering; declarations
\* append none; nothing is removed or reordered), hence a successful pass over
\* a program with k top-level gate calls returns exactly k instructions.
C11_InstructionPerTopLevelCall ==
    /\ [][AppendOnly]_vars
    /\ [](pc = "done" => Len(instructions) = calls)

\* C11 amended: the instruction list is append-only as stated, a statement of
\* another kind appends one instruction per gate call nested in it, hence a
\* successful pass returns exactly one instruction per gate call of the
\* program, top-level or nested, in source order.
C11_InstructionPerVisitedCall ==
    /\ [][AppendOnly]_vars
    /\ [][(OtherStep /\ pc' = "visiting") =>
            Len(instructions') = Len(instructions) + GateCallsIn(stmt'.body)]_vars
    /\ [](pc = "done" => Len(instructions) = calls + nestedCalls)

\* C11 witness: a pass returned two instructions, one of a top-level gate call
\* and, after it, one of a gate call nested in an if statement.
C11_Witness ==
    /\ pc = "done"
    /\ calls = 1 /\ nestedCalls = 1
    /\ stmt.kind = "IfStatement"
    /\ Len(instructions) = 2
    /\ instructions[1].name = "CNOT"
    /\ instructions[2].name = "H"

====
